---- MODULE Spec2Model ----
(***************************************************************************)
(* Model of app.py: the vote submission validator, the submit_vote write   *)
(* path to the blob store, the record loader and the aggregator.           *)
(*                                                                         *)
(* Strings whose content the code inspects (strip, comparison, suffix) are *)
(* sequences of code points.  A decoded JSON value is a record             *)
(* [t, n, s]: t its type tag, n its number (for "float" in tenths, for     *)
(* "bool" 0 or 1), s its string.                                           *)
(***************************************************************************)
EXTENDS Integers, Sequences, FiniteSets, TLC

VARIABLES
    payload, verdict,                    \* validate_payload: input and (ok, msg)
    records, agg,                        \* aggregate_votes: input list and result
    reqs, store, putLog, clock,          \* submit_vote: requests, the store, its calls
    pages, lpc, page, entries, pos, out  \* load_all_votes_from_dropbox

vVars == <<payload, verdict>>
aVars == <<records, agg>>
sVars == <<reqs, store, putLog, clock>>
lVars == <<pages, lpc, page, entries, pos, out>>
vars == <<payload, verdict, records, agg, reqs, store, putLog, clock,
          pages, lpc, page, entries, pos, out>>

\* Bounds of the model.
MaxResults == 2
MaxRecords == 3
MaxReqs == 2
MaxClock == 1
MaxEntries == 3
MaxPages == 2

----------------------------------------------------------------------------
\* JSON values

JAbsent == [t |-> "absent", n |-> 0, s |-> <<>>]
JNull == [t |-> "null", n |-> 0, s |-> <<>>]
JInt(k) == [t |-> "int", n |-> k, s |-> <<>>]
JBool(b) == [t |-> "bool", n |-> b, s |-> <<>>]
JFloat(tenths) == [t |-> "float", n |-> tenths, s |-> <<>>]
JStr(str) == [t |-> "str", n |-> 0, s |-> str]

\* An element of "results": an object with the keys the code reads, or
\* any other JSON value.
Entry(pid, pname, score, comment) ==
    [t |-> "obj", presenterId |-> pid, presenter |-> pname,
     score |-> score, comment |-> comment]
NonObjectEntry ==
    [t |-> "other", presenterId |-> JAbsent, presenter |-> JAbsent,
     score |-> JAbsent, comment |-> JAbsent]

ResultsList(items) == [t |-> "list", items |-> items]
ResultsAbsent == [t |-> "absent", items |-> <<>>]
ResultsOther == [t |-> "other", items |-> <<>>]

\* A payload / stored record: an object with the keys the code reads, or
\* any other JSON value (a list, a scalar, null).
Record(name, results, sra, ts) ==
    [t |-> "obj", evaluatorName |-> name, results |-> results,
     serverReceivedAt |-> sra, timestamp |-> ts]
NonObjectPayload ==
    [t |-> "other", evaluatorName |-> JAbsent, results |-> ResultsAbsent,
     serverReceivedAt |-> JAbsent, timestamp |-> JAbsent]

----------------------------------------------------------------------------
\* Strings

IsSpace(c) == c \in {9, 10, 11, 12, 13, 32}

RECURSIVE LStrip(_)
LStrip(str) ==
    IF str # <<>> /\ IsSpace(Head(str)) THEN LStrip(Tail(str)) ELSE str

RECURSIVE RStrip(_)
RStrip(str) ==
    IF str # <<>> /\ IsSpace(str[Len(str)])
    THEN RStrip(SubSeq(str, 1, Len(str) - 1))
    ELSE str

\* str.strip()
Strip(str) == RStrip(LStrip(str))

----------------------------------------------------------------------------
\* validate_payload

Pass == [ok |-> TRUE, msg |-> ""]
Reject(m) == [ok |-> FALSE, msg |-> m]

\* isinstance(x, str) and x.strip() non-empty, for a key that may be absent
NonBlankStr(v) == v.t = "str" /\ Strip(v.s) # <<>>

\* isinstance(score, int): bool is a subclass of int in Python
IsInstanceInt(v) == v.t \in {"int", "bool"}

\* not isinstance(score, int) or score < 0 or score > 5
ScoreRejected(v) == ~IsInstanceInt(v) \/ v.n < 0 \/ v.n > 5

\* "comment" in r and r["comment"] is not None and not isinstance(.., str)
CommentRejected(v) == v.t \notin {"absent", "null", "str"}

\* the body of the loop over payload["results"]: "" when r passes
CheckResult(r) ==
    IF r.t # "obj" THEN "each result must be an object"
    ELSE IF ~NonBlankStr(r.presenterId) THEN "presenterId is required"
    ELSE IF r.score.t = "absent" THEN "score is required"
    ELSE IF ScoreRejected(r.score) THEN "score must be an integer 0..5"
    ELSE IF CommentRejected(r.comment) THEN "comment must be a string"
    ELSE ""

\* rule by rule over the whole list instead of element by element
RECURSIVE FirstMsg(_, _)
FirstMsg(items, rules) ==
    IF rules = <<>> THEN ""
    ELSE IF \E i \in 1..Len(items) : CheckResult(items[i]) = Head(rules)
         THEN Head(rules)
         ELSE FirstMsg(items, Tail(rules))

CheckResultsRuleMajor(items) ==
    FirstMsg(items, <<"each result must be an object", "presenterId is required",
                      "score is required", "score must be an integer 0..5",
                      "comment must be a string">>)

\* for r in payload["results"]: return at the first r that fails
RECURSIVE CheckResults(_)
CheckResults(items) ==
    IF items = <<>> THEN ""
    ELSE IF CheckResult(Head(items)) # "" THEN CheckResult(Head(items))
    ELSE CheckResults(Tail(items))

validate_payload(p) ==
    IF p.t # "obj" THEN Reject("payload must be a JSON object")
    ELSE IF ~NonBlankStr(p.evaluatorName) THEN Reject("Evaluator name is required")
    ELSE IF p.results.t # "list" \/ Len(p.results.items) = 0
         THEN Reject("results must be a non-empty list")
    ELSE IF CheckResults(p.results.items) # ""
         THEN Reject(CheckResults(p.results.items))
    ELSE Pass

----------------------------------------------------------------------------
\* aggregate_votes

\* Python truth value of a decoded JSON value (d.get(k) of a missing key is
\* None)
Truthy(v) ==
    CASE v.t \in {"absent", "null"} -> FALSE
      [] v.t = "str" -> v.s # <<>>
      [] v.t = "bool" -> v.n = 1
      [] OTHER -> v.n # 0

\* a or b
Or(a, b) == IF Truthy(a) THEN a ELSE b

\* a < b on str: by code points, a proper prefix is smaller
RECURSIVE StrLess(_, _)
StrLess(a, b) ==
    IF b = <<>> THEN FALSE
    ELSE IF a = <<>> THEN TRUE
    ELSE IF Head(a) < Head(b) THEN TRUE
    ELSE IF Head(a) > Head(b) THEN FALSE
    ELSE StrLess(Tail(a), Tail(b))

\* ts = rec.get("serverReceivedAt") or rec.get("timestamp") or ""
EffectiveTs(rec) == Or(rec.serverReceivedAt, Or(rec.timestamp, JStr(<<>>)))

\* results = rec.get("results") or []
ResultsOf(rec) == IF rec.results.t = "list" THEN rec.results.items ELSE <<>>

\* latest.get(key): the position of key in the dict, 0 when it is not there
RECURSIVE KeyIndex(_, _, _)
KeyIndex(latest, key, i) ==
    IF i > Len(latest) THEN 0
    ELSE IF latest[i].key = key THEN i
    ELSE KeyIndex(latest, key, i + 1)

\* a later-processed entry replaces the survivor whatever its timestamp
ReplacesAlways(prevTs, ts) == TRUE

\* a later-processed entry replaces the survivor also on an equal timestamp
ReplacesOnTie(prevTs, ts) == ~StrLess(ts.s, prevTs.s)

\* ts > prev[0]
Replaces(prevTs, ts) == StrLess(prevTs.s, ts.s)

\* if (prev is None) or (ts > prev[0]): latest[key] = (ts, score, comment, pname)
\* (a dict keeps the position of a key whose value is replaced)
Upsert(latest, key, val) ==
    LET i == KeyIndex(latest, key, 1)
    IN  IF i = 0 THEN Append(latest, [key |-> key, val |-> val])
        ELSE IF Replaces(latest[i].val.ts, val.ts)
             THEN [latest EXCEPT ![i].val = val]
             ELSE latest

\* for entry in results
RECURSIVE FoldEntries(_, _, _, _)
FoldEntries(latest, ename, ts, items) ==
    IF items = <<>> THEN latest
    ELSE LET entry == Head(items)
             val == [ts |-> ts, score |-> entry.score,
                     comment |-> Or(entry.comment, JStr(<<>>)),
                     pname |-> entry.presenter]
         IN  IF ~Truthy(entry.presenterId)
             THEN FoldEntries(latest, ename, ts, Tail(items))
             ELSE FoldEntries(Upsert(latest, <<ename, entry.presenterId>>, val),
                              ename, ts, Tail(items))

\* for rec in records: the dict latest (as the list of its items, in
\* insertion order)
RECURSIVE FoldRecords(_, _)
FoldRecords(latest, recs) ==
    IF recs = <<>> THEN latest
    ELSE LET rec == Head(recs)
         IN  IF ~Truthy(rec.evaluatorName)
             THEN FoldRecords(latest, Tail(recs))
             ELSE FoldRecords(
                      FoldEntries(latest, rec.evaluatorName, EffectiveTs(rec), ResultsOf(rec)),
                      Tail(recs))

\* all_evaluators
AllEvaluators(recs) ==
    {recs[i].evaluatorName : i \in {j \in 1..Len(recs) : Truthy(recs[j].evaluatorName)}}

IsDigits(str) == str # <<>> /\ \A i \in 1..Len(str) : str[i] \in 48..57

RECURSIVE DigitsValue(_)
DigitsValue(str) ==
    IF str = <<>> THEN 0
    ELSE 10 * DigitsValue(SubSeq(str, 1, Len(str) - 1)) + (str[Len(str)] - 48)

\* s = float(score) inside try/except, in tenths; score None is skipped
\* before.  Of the strings, those of decimal digits (surrounding blanks
\* allowed) are parsed; signs, fractions, exponents, "nan" and "inf" are
\* outside the inputs of this model.
ToFloat(score) ==
    CASE score.t \in {"absent", "null"} -> [ok |-> FALSE, v |-> 0]
      [] score.t \in {"int", "bool"} -> [ok |-> TRUE, v |-> 10 * score.n]
      [] score.t = "float" -> [ok |-> TRUE, v |-> score.n]
      [] OTHER -> IF IsDigits(Strip(score.s))
                  THEN [ok |-> TRUE, v |-> 10 * DigitsValue(Strip(score.s))]
                  ELSE [ok |-> FALSE, v |-> 0]

RECURSIVE PidIndex(_, _, _)
PidIndex(ps, pid, i) ==
    IF i > Len(ps) THEN 0
    ELSE IF ps[i].presenterId = pid THEN i
    ELSE PidIndex(ps, pid, i + 1)

\* one item of latest added to all_presenters (setdefault, the name, the
\* sums, the detail)
AddVote(ps, item) ==
    LET f == ToFloat(item.val.score)
        pid == item.key[2]
        i0 == PidIndex(ps, pid, 1)
        ps1 == IF i0 # 0 THEN ps
               ELSE Append(ps, [presenterId |-> pid, presenter |-> item.val.pname,
                                totalScore |-> 0, voteCount |-> 0, details |-> <<>>])
        i == IF i0 # 0 THEN i0 ELSE Len(ps1)
        detail == [evaluatorName |-> item.key[1], score |-> f.v,
                   comment |-> item.val.comment, timestamp |-> item.val.ts]
    IN  IF ~f.ok THEN ps
        ELSE [ps1 EXCEPT ![i] =
                 [presenterId |-> @.presenterId,
                  presenter |-> IF Truthy(item.val.pname) THEN item.val.pname ELSE @.presenter,
                  totalScore |-> @.totalScore + f.v,
                  voteCount |-> @.voteCount + 1,
                  details |-> Append(@.details, detail)]]

\* for (evaluator_name, pid), (ts, score, comment, pname) in latest.items()
RECURSIVE FoldVotes(_, _)
FoldVotes(ps, latest) ==
    IF latest = <<>> THEN ps ELSE FoldVotes(AddVote(ps, Head(latest)), Tail(latest))

\* rounding towards zero instead of to the nearest
Round3Truncating(total, cnt) == (100 * total) \div cnt

\* round(totalScore / cnt, 3) in thousandths, totalScore in tenths: to the
\* nearest, a tie to the even one
Round3(total, cnt) ==
    LET q == (100 * total) \div cnt
        r == (100 * total) % cnt
    IN  IF 2 * r < cnt THEN q
        ELSE IF 2 * r > cnt THEN q + 1
        ELSE IF q % 2 = 0 THEN q ELSE q + 1

\* avg = totalScore / cnt if cnt > 0 else 0.0; info["avgScore"] = round(avg, 3)
WithAvg(info) ==
    [presenterId |-> info.presenterId, presenter |-> info.presenter,
     totalScore |-> info.totalScore, voteCount |-> info.voteCount,
     details |-> info.details,
     avgScore |-> IF info.voteCount > 0 THEN Round3(info.totalScore, info.voteCount) ELSE 0]

\* the sort key without the vote count
SortKeyLessNoCount(x, y) ==
    \/ -x.avgScore < -y.avgScore
    \/ -x.avgScore = -y.avgScore /\ StrLess(x.presenterId.s, y.presenterId.s)

\* (-x["avgScore"], -x["voteCount"], x["presenterId"]) < the same of y
SortKeyLess(x, y) ==
    \/ -x.avgScore < -y.avgScore
    \/ -x.avgScore = -y.avgScore /\ -x.voteCount < -y.voteCount
    \/ /\ -x.avgScore = -y.avgScore /\ -x.voteCount = -y.voteCount
       /\ StrLess(x.presenterId.s, y.presenterId.s)

RECURSIVE InsertSorted(_, _)
InsertSorted(sorted, x) ==
    IF sorted = <<>> THEN <<x>>
    ELSE IF SortKeyLess(x, Head(sorted)) THEN <<x>> \o sorted
    ELSE <<Head(sorted)>> \o InsertSorted(Tail(sorted), x)

\* result_list.sort(key=...): a stable sort
RECURSIVE SortByKey(_, _)
SortByKey(sorted, rest) ==
    IF rest = <<>> THEN sorted
    ELSE SortByKey(InsertSorted(sorted, Head(rest)), Tail(rest))

\* aggregate_votes(records), without lastUpdated (the clock); latest is the
\* function's local dict, kept beside the result
aggregate_votes(recs) ==
    LET latest == FoldRecords(<<>>, recs)
        ps == FoldVotes(<<>>, latest)
        withAvg == [i \in 1..Len(ps) |-> WithAvg(ps[i])]
    IN  [ok |-> TRUE, latest |-> latest,
         all_presenters |-> SortByKey(<<>>, withAvg),
         totalEvaluators |-> Cardinality(AllEvaluators(recs))]

NoAgg == [ok |-> FALSE, latest |-> <<>>, all_presenters |-> <<>>, totalEvaluators |-> 0]

----------------------------------------------------------------------------
\* submit_vote

\* os.environ.get("DROPBOX_BASE_FOLDER", ""): the default
DROPBOX_BASE_FOLDER == <<>>

RECURSIVE RStripSlash(_)
RStripSlash(str) ==
    IF str # <<>> /\ str[Len(str)] = 47
    THEN RStripSlash(SubSeq(str, 1, Len(str) - 1))
    ELSE str

\* "/vote_results"
VoteResults == <<47, 118, 111, 116, 101, 95, 114, 101, 115, 117, 108, 116, 115>>

\* ".json"
DotJson == <<46, 106, 115, 111, 110>>

\* folder = f"{base}/vote_results" if base else "/vote_results"
Folder == RStripSlash(DROPBOX_BASE_FOLDER) \o VoteResults

\* one file for every evaluator
DropboxPathFixed(name) == Folder \o <<47>> \o <<118, 111, 116, 101>> \o DotJson

\* dropbox_path = f"{folder}/{evaluator_name}.json", evaluator_name stripped
DropboxPath(name) == Folder \o <<47>> \o Strip(name) \o DotJson

RECURSIVE ToDigits(_)
ToDigits(k) ==
    IF k < 10 THEN <<48 + k>> ELSE ToDigits(k \div 10) \o <<48 + (k % 10)>>

\* utc_now_iso(): the clock as a string that grows with it
utc_now_iso(now) == JStr(ToDigits(now))

\* payload_server = dict(payload); payload_server["serverReceivedAt"] = ...
\* The bytes json.dumps makes of it are modelled by the object they decode
\* to.
PayloadServer(p, now) == [p EXCEPT !.serverReceivedAt = utc_now_iso(now)]

\* WriteMode.add without autorename: an existing file is kept
files_upload_add(st, path, data) ==
    IF \E b \in st : b.path = path THEN st ELSE st \cup {[path |-> path, body |-> data]}

\* dbx.files_upload(data_bytes, dropbox_path, mode=WriteMode.overwrite),
\* when the store accepts it
files_upload(st, path, data) ==
    {b \in st : b.path # path} \cup {[path |-> path, body |-> data]}

----------------------------------------------------------------------------
\* load_all_votes_from_dropbox

\* str.lower() on ASCII
Lower(str) == [i \in 1..Len(str) |-> IF str[i] \in 65..90 THEN str[i] + 32 ELSE str[i]]

\* str.endswith(suffix)
EndsWith(str, suffix) ==
    /\ Len(str) >= Len(suffix)
    /\ SubSeq(str, Len(str) - Len(suffix) + 1, Len(str)) = suffix

\* isinstance(e, FileMetadata) and e.name.lower().endswith(".json")
IsVoteFile(e) == e.kind = "file" /\ EndsWith(Lower(e.name), DotJson)

\* e.path_lower
PathLower(e) == Lower(Folder \o <<47>> \o e.name)

\* only the first page of the listing is read
has_more_never(pg, pgs) == FALSE

\* res.has_more, for the page res that was read last
has_more(pg, pgs) == pg < Len(pgs)

----------------------------------------------------------------------------
\* Inputs of the validator

SeqsOfLen(S, lo, hi) == UNION {[1..k -> S] : k \in lo..hi}

PidVals == {JAbsent, JInt(7), JStr(<<32>>), JStr(<<112>>)}
ScoreVals == {JAbsent, JNull, JBool(1), JFloat(55), JStr(<<53>>),
              JInt(-1), JInt(0), JInt(5), JInt(6)}
CommentVals == {JAbsent, JNull, JStr(<<99>>), JInt(7)}

AllElements ==
    {NonObjectEntry} \cup
    {Entry(pid, JAbsent, sc, cm) : pid \in PidVals, sc \in ScoreVals, cm \in CommentVals}

\* the elements of the lists of two and more elements: one per rule broken,
\* one breaking several, two valid ones
CoreElements ==
    {NonObjectEntry,
     Entry(JStr(<<112>>), JAbsent, JInt(5), JAbsent),
     Entry(JStr(<<112>>), JAbsent, JInt(0), JStr(<<99>>)),
     Entry(JStr(<<32>>), JAbsent, JInt(5), JAbsent),
     Entry(JStr(<<112>>), JAbsent, JAbsent, JAbsent),
     Entry(JStr(<<112>>), JAbsent, JInt(6), JAbsent),
     Entry(JStr(<<112>>), JAbsent, JBool(1), JAbsent),
     Entry(JStr(<<112>>), JAbsent, JInt(5), JInt(7)),
     Entry(JAbsent, JAbsent, JFloat(55), JInt(7))}

ItemLists == SeqsOfLen(AllElements, 0, 1) \cup SeqsOfLen(CoreElements, 2, MaxResults)

NameVals == {JAbsent, JInt(7), JStr(<<>>), JStr(<<32>>), JStr(<<97>>), JStr(<<32, 97, 32>>)}

ResultsVals == {ResultsAbsent, ResultsOther} \cup {ResultsList(l) : l \in ItemLists}

Payloads ==
    {NonObjectPayload} \cup
    {Record(nm, rs, JAbsent, JAbsent) : nm \in NameVals, rs \in ResultsVals}

NoVerdict == [ok |-> FALSE, msg |-> "-"]

----------------------------------------------------------------------------
\* Idle values of the parts a specification does not use

IdleV == payload = NonObjectPayload /\ verdict = NoVerdict
IdleA == records = <<>> /\ agg = NoAgg
IdleS == reqs = <<>> /\ store = {} /\ putLog = <<>> /\ clock = 0
IdleL == pages = <<>> /\ lpc = "idle" /\ page = 0 /\ entries = <<>> /\ pos = 0 /\ out = <<>>

----------------------------------------------------------------------------
\* The validator applied to one payload

InitValidate ==
    /\ payload \in Payloads
    /\ verdict = NoVerdict
    /\ IdleA /\ IdleS /\ IdleL

Validate ==
    /\ verdict = NoVerdict
    /\ verdict' = validate_payload(payload)
    /\ UNCHANGED <<payload, aVars, sVars, lVars>>

NextValidate == Validate

SpecValidate == InitValidate /\ [][NextValidate]_vars

----------------------------------------------------------------------------
\* Properties of the validator

\* The rules of the validator as the specification words them, each as a
\* predicate of one element (4..8) or of the payload (1..3).  A rule that
\* presupposes an earlier one (a key of a non-object) is broken only where
\* the earlier one holds.
IsIntegerInRange(v) == v.t = "int" /\ v.n >= 0 /\ v.n <= 5

ElementValid(r) ==
    /\ r.t = "obj"
    /\ r.presenterId.t = "str" /\ Strip(r.presenterId.s) # <<>>
    /\ IsIntegerInRange(r.score)
    /\ r.comment.t \in {"absent", "null", "str"}

PayloadValid(p) ==
    /\ p.t = "obj"
    /\ p.evaluatorName.t = "str" /\ Strip(p.evaluatorName.s) # <<>>
    /\ p.results.t = "list" /\ p.results.items # <<>>
    /\ \A i \in 1..Len(p.results.items) : ElementValid(p.results.items[i])

HasBoolScore(p) ==
    \E i \in 1..Len(p.results.items) : p.results.items[i].score.t = "bool"

\* C7: validate_payload returns (True, "") if and only if the payload is an
\* object with a non-blank string evaluatorName, a non-empty list results,
\* and every element is an object with a non-blank string presenterId, a
\* score that is an integer in 0..5 (a boolean is not one) and a comment
\* that is absent, null or a string.
C7_AcceptsIffValid ==
    verdict # NoVerdict => (verdict = Pass <=> PayloadValid(payload))

\* The same equivalence on the payloads that hold no boolean score.
C7_AcceptsIffValidNoBool ==
    (verdict # NoVerdict /\ ~HasBoolScore(payload))
        => (verdict = Pass <=> PayloadValid(payload))

RuleMsg ==
    <<"payload must be a JSON object", "Evaluator name is required",
      "results must be a non-empty list", "each result must be an object",
      "presenterId is required", "score is required",
      "score must be an integer 0..5", "comment must be a string">>

\* rule k (4..8) is broken by element r; rule 7 as the validator tests it
ElementBreaks(k, r) ==
    CASE k = 4 -> r.t # "obj"
      [] k = 5 -> r.t = "obj" /\ ~(r.presenterId.t = "str" /\ Strip(r.presenterId.s) # <<>>)
      [] k = 6 -> r.t = "obj" /\ r.score.t = "absent"
      [] k = 7 -> r.t = "obj" /\ r.score.t # "absent" /\ ScoreRejected(r.score)
      [] k = 8 -> r.t = "obj" /\ r.comment.t \notin {"absent", "null", "str"}

\* rule k (1..8) is broken by payload p
PayloadBreaks(k, p) ==
    CASE k = 1 -> p.t # "obj"
      [] k = 2 -> p.t = "obj" /\ ~(p.evaluatorName.t = "str" /\ Strip(p.evaluatorName.s) # <<>>)
      [] k = 3 -> p.t = "obj" /\ ~(p.results.t = "list" /\ p.results.items # <<>>)
      [] OTHER -> /\ p.t = "obj" /\ p.results.t = "list"
                  /\ \E i \in 1..Len(p.results.items) : ElementBreaks(k, p.results.items[i])

BrokenRules(p) == {k \in 1..8 : PayloadBreaks(k, p)}

Least(S) == CHOOSE k \in S : \A m \in S : k <= m

\* the reason the claim names: the lowest-numbered broken rule, wherever in
\* results it is broken
RuleMajorReason(p) == RuleMsg[Least(BrokenRules(p))]

\* the reason of the first failing check in the order rules 1..3, then for
\* each element in list order rules 4..8
ElementMajorReason(p) ==
    IF BrokenRules(p) \cap {1, 2, 3} # {}
    THEN RuleMsg[Least(BrokenRules(p) \cap {1, 2, 3})]
    ELSE LET bad == {i \in 1..Len(p.results.items) :
                        \E k \in 4..8 : ElementBreaks(k, p.results.items[i])}
             i0 == Least(bad)
         IN  RuleMsg[Least({k \in 4..8 : ElementBreaks(k, p.results.items[i0])})]

\* C8 as claimed: the reason returned is that of the first broken rule in
\* the order 1..8, also when the violations lie in different elements.
C8_RuleOrderAcrossElements ==
    (verdict # NoVerdict /\ BrokenRules(payload) # {})
        => verdict = Reject(RuleMajorReason(payload))

\* C8 as amended: the reason returned is that of the first failing check in
\* the order the validator performs them: rules 1..3 on the payload, then
\* element by element in list order, rules 4..8 within each element; a
\* payload that fails no check passes.
C8_FirstFailingCheck ==
    verdict # NoVerdict =>
        IF BrokenRules(payload) = {} THEN verdict = Pass
        ELSE verdict = Reject(ElementMajorReason(payload))

\* two elements: the earlier breaks rule 8 only, the later breaks rule 4,
\* and the validator has answered with the earlier element's reason
C8_Witness ==
    /\ verdict = Reject("comment must be a string")
    /\ payload.results.t = "list" /\ Len(payload.results.items) = 2
    /\ ElementBreaks(8, payload.results.items[1])
    /\ ElementBreaks(4, payload.results.items[2])

----------------------------------------------------------------------------
\* The aggregator applied to one list of records

SA == JStr(<<97>>)
SB == JStr(<<98>>)
SC == JStr(<<99>>)
P1 == JStr(<<112, 49>>)
P2 == JStr(<<112, 50>>)
P3 == JStr(<<112, 51>>)
T9 == JStr(<<57>>)
T10 == JStr(<<49, 48>>)

\* records of two evaluators ("b" with two of the three results) that rate
\* p1 again and again: three effective timestamps "" < "10" < "9" (the
\* second key as fall back, the first key before the second), different
\* scores and names, a null score, an entry without presenterId, a
\* presenter rated twice in one record; and one record without evaluator
ConflictResults1 == ResultsList(<<Entry(P1, JStr(<<78>>), JInt(3), JStr(<<120>>))>>)

ConflictResults ==
    {ConflictResults1,
     ResultsList(<<Entry(P1, JStr(<<77>>), JInt(5), JAbsent)>>),
     ResultsList(<<Entry(P1, JAbsent, JNull, JAbsent),
                   Entry(JStr(<<>>), JAbsent, JInt(5), JAbsent),
                   Entry(P2, JAbsent, JInt(4), JNull),
                   Entry(P2, JAbsent, JInt(2), JAbsent)>>)}

ConflictStamps == {<<T10, T9>>, <<JAbsent, T9>>, <<JAbsent, JAbsent>>}

ConflictRecords ==
    {Record(SA, rs, st[1], st[2]) : rs \in ConflictResults, st \in ConflictStamps}
    \cup {Record(SB, rs, st[1], st[2]) :
             rs \in ConflictResults \ {ConflictResults1}, st \in ConflictStamps}
    \cup {Record(JStr(<<>>), ResultsList(<<Entry(P1, JAbsent, JInt(1), JAbsent)>>), T10, JAbsent)}

InitAgg ==
    /\ records \in SeqsOfLen(ConflictRecords, 0, MaxRecords)
    /\ agg = NoAgg
    /\ IdleV /\ IdleS /\ IdleL

Aggregate ==
    /\ ~agg.ok
    /\ agg' = aggregate_votes(records)
    /\ UNCHANGED <<records, vVars, sVars, lVars>>

NextAgg == Aggregate

SpecAgg == InitAgg /\ [][NextAgg]_vars

----------------------------------------------------------------------------
\* Properties of the conflict resolution

\* a < b for strings, stated by the first position where they differ
LexLess(a, b) ==
    \E k \in 0..Len(a) :
        /\ k <= Len(b)
        /\ \A m \in 1..k : a[m] = b[m]
        /\ \/ k = Len(a) /\ k < Len(b)
           \/ k < Len(a) /\ k < Len(b) /\ a[k + 1] < b[k + 1]

Idx == 1..Len(records)
Pids == {P1, P2, P3}
Named(i) == records[i].evaluatorName.t = "str" /\ records[i].evaluatorName.s # <<>>
TsOf(i) == EffectiveTs(records[i]).s

\* the positions in record i of the entries that rate presenter p
RatingsOf(i, p) ==
    {m \in 1..Len(ResultsOf(records[i])) : ResultsOf(records[i])[m].presenterId = p}
Rates(i, p) == Named(i) /\ RatingsOf(i, p) # {}

\* what record i says of presenter p (its first entry for p)
ValOf(i, p) ==
    LET entry == ResultsOf(records[i])[Least(RatingsOf(i, p))]
    IN  [ts |-> EffectiveTs(records[i]), score |-> entry.score,
         comment |-> IF entry.comment.t = "str" THEN entry.comment ELSE JStr(<<>>),
         pname |-> entry.presenter]

\* the survivors of the pair (e, p) in latest, as a set of values
Survivors(e, p) ==
    {agg.latest[m].val : m \in {x \in 1..Len(agg.latest) : agg.latest[x].key = <<e, p>>}}

\* the contributions of evaluator e to presenter p in the result
Contributions(e, p) ==
    {<<m, d>> \in (1..Len(agg.all_presenters)) \X (1..MaxRecords + 1) :
        /\ agg.all_presenters[m].presenterId = p
        /\ d <= Len(agg.all_presenters[m].details)
        /\ agg.all_presenters[m].details[d].evaluatorName = e}

DetailAt(c) == agg.all_presenters[c[1]].details[c[2]]

\* the detail record i contributes for presenter p, when its score counts
DetailOf(i, p) ==
    [evaluatorName |-> records[i].evaluatorName, score |-> ToFloat(ValOf(i, p).score).v,
     comment |-> ValOf(i, p).comment, timestamp |-> ValOf(i, p).ts]

SamePair(i, j, p) ==
    /\ i # j /\ Rates(i, p) /\ Rates(j, p)
    /\ records[i].evaluatorName = records[j].evaluatorName

\* C1: when one evaluator has two records i, j that both rate presenter p,
\* with effective timestamps T_i < T_j as strings, the entry of record i
\* is not the survivor and contributes nothing to p, in either input order;
\* and when no further record of the evaluator reaches T_j, the entry of
\* record j is the survivor and the evaluator's only contribution to p.
C1_LastWriterWins ==
    agg.ok =>
      \A i \in Idx, j \in Idx, p \in Pids :
        (SamePair(i, j, p) /\ LexLess(TsOf(i), TsOf(j))) =>
          LET e == records[i].evaluatorName
              jWins == \A k \in Idx \ {j} : SamePair(k, j, p) => LexLess(TsOf(k), TsOf(j))
          IN  /\ \A v \in Survivors(e, p) : LexLess(TsOf(i), v.ts.s)
              /\ Cardinality(Survivors(e, p)) = 1
              /\ Cardinality(Contributions(e, p)) <= 1
              /\ \A c \in Contributions(e, p) : LexLess(TsOf(i), DetailAt(c).timestamp.s)
              /\ jWins =>
                   /\ Survivors(e, p) = {ValOf(j, p)}
                   /\ IF ToFloat(ValOf(j, p).score).ok
                      THEN {DetailAt(c) : c \in Contributions(e, p)} = {DetailOf(j, p)}
                      ELSE Contributions(e, p) = {}

\* the newer record ("9") is processed before the older one ("10", smaller
\* as a string), their scores differ, and the newer one's entry is in the
\* totals
C1_Witness ==
    /\ agg.ok
    /\ \E i \in Idx, j \in Idx :
         /\ i < j /\ SamePair(i, j, P1)
         /\ TsOf(i) = <<57>> /\ TsOf(j) = <<49, 48>>
         /\ ValOf(i, P1).score # ValOf(j, P1).score
         /\ ToFloat(ValOf(i, P1).score).ok /\ ToFloat(ValOf(j, P1).score).ok
         /\ {DetailAt(c) : c \in Contributions(records[i].evaluatorName, P1)} = {DetailOf(i, P1)}

\* records i < j of one evaluator tie at the greatest timestamp of the pair
\* (e, p), and i is the first record with that timestamp
TieAtTop(i, j, p) ==
    /\ i < j /\ SamePair(i, j, p) /\ TsOf(i) = TsOf(j)
    /\ \A k \in Idx \ {i, j} :
         SamePair(k, i, p) => \/ LexLess(TsOf(k), TsOf(i))
                              \/ TsOf(k) = TsOf(i) /\ k > i

\* j is the last record with that timestamp
LastOfTie(j, p) ==
    \A k \in Idx : (SamePair(k, j, p) /\ TsOf(k) = TsOf(j)) => k < j

\* C2 as claimed: on identical effective timestamps the survivor of the
\* pair is the entry of the record processed last.
C2_TieLastProcessedWins ==
    agg.ok =>
      \A i \in Idx, j \in Idx, p \in Pids :
        (TieAtTop(i, j, p) /\ LastOfTie(j, p)) =>
            Survivors(records[i].evaluatorName, p) = {ValOf(j, p)}

\* C2 as amended: on identical effective timestamps the survivor of the
\* pair is the entry of the record processed first.
C2_TieFirstProcessedWins ==
    agg.ok =>
      \A i \in Idx, j \in Idx, p \in Pids :
        TieAtTop(i, j, p) =>
            Survivors(records[i].evaluatorName, p) = {ValOf(i, p)}

C2_Witness ==
    /\ agg.ok
    /\ \E i \in Idx, j \in Idx :
         /\ TieAtTop(i, j, P1)
         /\ ValOf(i, P1).score # ValOf(j, P1).score
         /\ Survivors(records[i].evaluatorName, P1) = {ValOf(i, P1)}

----------------------------------------------------------------------------
\* Properties of the aggregation under reordering of its input

\* records with the neighbours at i and i + 1 exchanged
Swap(recs, i) ==
    [k \in 1..Len(recs) |-> IF k = i THEN recs[i + 1] ELSE IF k = i + 1 THEN recs[i] ELSE recs[k]]

\* a record as the validator accepts and submit_vote stores it
ValidRecord(rec) ==
    /\ rec.evaluatorName.t = "str" /\ Strip(rec.evaluatorName.s) # <<>>
    /\ rec.results.t = "list" /\ rec.results.items # <<>>
    /\ \A m \in 1..Len(rec.results.items) :
         LET r == rec.results.items[m]
         IN  /\ r.t = "obj" /\ r.presenterId.t = "str" /\ Strip(r.presenterId.s) # <<>>
             /\ r.score.t = "int" /\ r.score.n \in 0..5
             /\ r.comment.t \in {"absent", "null", "str"}

AllValid == \A i \in Idx : ValidRecord(records[i])
OnePerEvaluator ==
    \A i \in Idx, j \in Idx : i # j => records[i].evaluatorName # records[j].evaluatorName

\* no two records of one evaluator that rate the same presenter carry the
\* same effective timestamp
NoTies == \A i \in Idx, j \in Idx, p \in Pids : SamePair(i, j, p) => TsOf(i) # TsOf(j)

Figures(ps) ==
    [m \in 1..Len(ps) |->
        [presenterId |-> ps[m].presenterId, totalScore |-> ps[m].totalScore,
         voteCount |-> ps[m].voteCount, avgScore |-> ps[m].avgScore,
         details |-> {ps[m].details[d] : d \in 1..Len(ps[m].details)}]]

\* C10 as claimed: aggregating the same valid records (one per evaluator)
\* in another order yields identical all_presenters, order and values
\* (presenter and details included), and identical totalEvaluators.
C10_SameResultInAnyOrder ==
    (agg.ok /\ AllValid /\ OnePerEvaluator) =>
      \A i \in 1..(Len(records) - 1) :
        LET other == aggregate_votes(Swap(records, i))
        IN  /\ other.all_presenters = agg.all_presenters
            /\ other.totalEvaluators = agg.totalEvaluators

\* C10 as amended: when no two records of one evaluator that rate the same
\* presenter tie in effective timestamp, aggregating the records in another
\* order yields the same presenters in the same order with the same
\* presenterId, totalScore, voteCount, avgScore and the same details as a
\* set, and the same totalEvaluators.
C10_SameFiguresInAnyOrder ==
    (agg.ok /\ NoTies) =>
      \A i \in 1..(Len(records) - 1) :
        LET other == aggregate_votes(Swap(records, i))
        IN  /\ Figures(other.all_presenters) = Figures(agg.all_presenters)
            /\ other.totalEvaluators = agg.totalEvaluators

\* two valid records of different evaluators whose exchange changes the
\* result (the order of details, the presenter name) but not the figures
C10_Witness ==
    /\ agg.ok /\ AllValid /\ OnePerEvaluator /\ NoTies /\ Len(records) >= 2
    /\ LET other == aggregate_votes(Swap(records, 1))
       IN  /\ other.all_presenters # agg.all_presenters
           /\ Figures(other.all_presenters) = Figures(agg.all_presenters)
           /\ Len(agg.all_presenters) >= 1
           /\ agg.all_presenters[1].voteCount >= 2

----------------------------------------------------------------------------
\* The aggregator applied to the records of three evaluators

\* records of three evaluators rating three presenters: equal averages
\* with different and with equal vote counts, thirds, a null score, a
\* string that does not parse, a string that does, a boolean
RankResults ==
    {ResultsList(<<Entry(P2, JAbsent, JInt(4), JAbsent), Entry(P1, JAbsent, JInt(4), JAbsent)>>),
     ResultsList(<<Entry(P2, JAbsent, JInt(4), JAbsent)>>),
     ResultsList(<<Entry(P1, JAbsent, JInt(5), JAbsent), Entry(P3, JAbsent, JStr(<<120>>), JAbsent)>>),
     ResultsList(<<Entry(P1, JAbsent, JNull, JAbsent), Entry(P3, JAbsent, JStr(<<32, 53>>), JAbsent)>>),
     ResultsList(<<Entry(P3, JAbsent, JInt(4), JAbsent), Entry(P1, JAbsent, JBool(1), JAbsent)>>),
     ResultsList(<<Entry(P3, JAbsent, JInt(4), JAbsent)>>)}

RankRecords == {Record(e, rs, JAbsent, JAbsent) : e \in {SA, SB, SC}, rs \in RankResults}

InitRank ==
    /\ records \in SeqsOfLen(RankRecords, 0, MaxRecords)
    /\ agg = NoAgg
    /\ IdleV /\ IdleS /\ IdleL

SpecRank == InitRank /\ [][NextAgg]_vars

----------------------------------------------------------------------------
\* Properties of the summaries and their order

Listed == 1..Len(agg.all_presenters)

\* C5: all_presenters is ordered by avgScore descending, then voteCount
\* descending, then presenterId ascending: of two adjacent presenters the
\* first has the greater average, or the same average and the greater
\* count, or both the same and the smaller presenterId; no presenterId
\* appears twice.
C5_Ranked ==
    agg.ok =>
      /\ \A m \in Listed \ {Len(agg.all_presenters)} :
           LET a == agg.all_presenters[m]
               b == agg.all_presenters[m + 1]
           IN  \/ a.avgScore > b.avgScore
               \/ a.avgScore = b.avgScore /\ a.voteCount > b.voteCount
               \/ /\ a.avgScore = b.avgScore /\ a.voteCount = b.voteCount
                  /\ LexLess(a.presenterId.s, b.presenterId.s)
      /\ \A m \in Listed, k \in Listed :
           m # k => agg.all_presenters[m].presenterId # agg.all_presenters[k].presenterId

\* three presenters of one average: the one with more votes first although
\* its presenterId is greater, the two with equal votes by presenterId
C5_Witness ==
    /\ agg.ok /\ Len(agg.all_presenters) = 3
    /\ LET a == agg.all_presenters[1]
           b == agg.all_presenters[2]
           c == agg.all_presenters[3]
       IN  /\ a.avgScore = b.avgScore /\ b.avgScore = c.avgScore
           /\ a.voteCount > b.voteCount /\ b.voteCount = c.voteCount
           /\ LexLess(b.presenterId.s, a.presenterId.s)
           /\ LexLess(b.presenterId.s, c.presenterId.s)

\* the items of latest for presenter p whose score is neither null nor
\* unparsable
Counted(p) ==
    {m \in 1..Len(agg.latest) :
        agg.latest[m].key[2] = p /\ ToFloat(agg.latest[m].val.score).ok}

RECURSIVE SumScores(_)
SumScores(S) ==
    IF S = {} THEN 0
    ELSE LET m == CHOOSE x \in S : TRUE
         IN  ToFloat(agg.latest[m].val.score).v + SumScores(S \ {m})

Abs(x) == IF x < 0 THEN -x ELSE x

\* C6: every listed presenter has voteCount >= 1, voteCount equal to the
\* number of its surviving entries with a non-null parsable score and to
\* the length of details, totalScore equal to the sum of those scores and
\* avgScore equal to totalScore / voteCount rounded to 3 decimals; a
\* presenter without such an entry is not listed.
C6_Summaries ==
    agg.ok =>
      /\ \A m \in Listed :
           LET info == agg.all_presenters[m]
           IN  /\ info.voteCount >= 1
               /\ info.voteCount = Cardinality(Counted(info.presenterId))
               /\ info.voteCount = Len(info.details)
               /\ info.totalScore = SumScores(Counted(info.presenterId))
               /\ 2 * Abs(info.voteCount * info.avgScore - 100 * info.totalScore)
                      <= info.voteCount
      /\ \A p \in Pids :
           Counted(p) = {} => \A m \in Listed : agg.all_presenters[m].presenterId # p

\* p1 with the three votes 4, 5, 5 (average 4.667, rounded up), while p3
\* survives in latest with unparsable scores only and is not listed
C6_Witness ==
    /\ agg.ok
    /\ \E m \in Listed :
         /\ agg.all_presenters[m].presenterId = P1
         /\ agg.all_presenters[m].voteCount = 3
         /\ agg.all_presenters[m].totalScore = 140
         /\ agg.all_presenters[m].avgScore = 4667
    /\ \E x \in 1..Len(agg.latest) : agg.latest[x].key[2] = P3
    /\ \A m \in Listed : agg.all_presenters[m].presenterId # P3

----------------------------------------------------------------------------
\* Concurrent submit_vote requests against one store

SubmitResults1 == ResultsList(<<Entry(P1, JAbsent, JInt(4), JAbsent)>>)
SubmitResults2 ==
    ResultsList(<<Entry(P1, JAbsent, JInt(2), JAbsent), Entry(P2, JAbsent, JInt(5), JAbsent)>>)

\* "a" twice with different results, " a " (the same file as "a"), "b", a
\* payload that sets serverReceivedAt itself, and two the validator rejects
SubmitPayloads ==
    {Record(JStr(<<97>>), SubmitResults1, JAbsent, JAbsent),
     Record(JStr(<<97>>), SubmitResults2, T9, JAbsent),
     Record(JStr(<<32, 97, 32>>), SubmitResults2, JAbsent, JAbsent),
     Record(JStr(<<98>>), SubmitResults1, JAbsent, JAbsent),
     Record(JStr(<<98>>), ResultsList(<<>>), JAbsent, JAbsent),
     NonObjectPayload}

NoPath == <<>>

InitSubmit ==
    /\ reqs = <<>> /\ store = {} /\ putLog = <<>> /\ clock = 0
    /\ IdleV /\ IdleA /\ IdleL

\* a request arrives: request.get_json(silent=True)
Arrive(p) ==
    /\ Len(reqs) < MaxReqs
    /\ reqs' = Append(reqs, [payload |-> p, pc |-> "recv", path |-> NoPath,
                             body |-> NonObjectPayload])
    /\ UNCHANGED <<store, putLog, clock, vVars, aVars, lVars>>

\* validate_payload, then either the 400 answer or the path and the bytes
Prepare(i) ==
    /\ reqs[i].pc = "recv"
    /\ IF ~validate_payload(reqs[i].payload).ok
       THEN reqs' = [reqs EXCEPT ![i].pc = "bad"]
       ELSE reqs' = [reqs EXCEPT ![i].pc = "ready",
                                 ![i].path = DropboxPath(reqs[i].payload.evaluatorName.s),
                                 ![i].body = PayloadServer(reqs[i].payload, clock)]
    /\ UNCHANGED <<store, putLog, clock, vVars, aVars, lVars>>

\* dbx.files_upload returns: the 200 answer
UploadOk(i) ==
    /\ reqs[i].pc = "ready"
    /\ store' = files_upload(store, reqs[i].path, reqs[i].body)
    /\ putLog' = Append(putLog, [req |-> i, path |-> reqs[i].path,
                                 body |-> reqs[i].body, ok |-> TRUE])
    /\ reqs' = [reqs EXCEPT ![i].pc = "ok"]
    /\ UNCHANGED <<clock, vVars, aVars, lVars>>

\* dbx.files_upload raises: the 500 answer
UploadFail(i) ==
    /\ reqs[i].pc = "ready"
    /\ putLog' = Append(putLog, [req |-> i, path |-> reqs[i].path,
                                 body |-> reqs[i].body, ok |-> FALSE])
    /\ reqs' = [reqs EXCEPT ![i].pc = "failed"]
    /\ UNCHANGED <<store, clock, vVars, aVars, lVars>>

Tick ==
    /\ clock < MaxClock
    /\ clock' = clock + 1
    /\ UNCHANGED <<reqs, store, putLog, vVars, aVars, lVars>>

NextSubmit ==
    \/ \E p \in SubmitPayloads : Arrive(p)
    \/ \E i \in 1..Len(reqs) : Prepare(i)
    \/ \E i \in 1..Len(reqs) : UploadOk(i)
    \/ \E i \in 1..Len(reqs) : UploadFail(i)
    \/ Tick

SpecSubmit == InitSubmit /\ [][NextSubmit]_vars

----------------------------------------------------------------------------
\* Properties of the write path

Puts == 1..Len(putLog)
OkPuts(path) == {k \in Puts : putLog[k].ok /\ putLog[k].path = path}
Greatest(S) == CHOOSE k \in S : \A m \in S : m <= k
StoredAt(path) == {b.body : b \in {x \in store : x.path = path}}
AllPaths == {putLog[k].path : k \in Puts} \cup {b.path : b \in store}
Accepted(i) == reqs[i].pc \in {"ready", "ok", "failed"}

\* C3: the object stored under a key is exactly the content of the last
\* submission uploaded successfully to that key (the submitted payload with
\* its own results and the server's stamp, nothing of older content); a
\* submission the validator rejects makes no store call; a failed upload
\* leaves the store as it was (the store is a function of the successful
\* uploads alone).
C3_LastSuccessfulUploadStored ==
    /\ \A path \in AllPaths :
         IF OkPuts(path) = {} THEN StoredAt(path) = {}
         ELSE StoredAt(path) = {putLog[Greatest(OkPuts(path))].body}
    /\ \A k \in Puts :
         LET r == reqs[putLog[k].req]
         IN  /\ validate_payload(r.payload) = Pass
             /\ putLog[k].body.results = r.payload.results
             /\ putLog[k].body.evaluatorName = r.payload.evaluatorName
             /\ putLog[k].body.timestamp = r.payload.timestamp
             /\ putLog[k].body.serverReceivedAt.t = "str"
             /\ r.pc \in {"ok", "failed"}
    /\ \A k \in Puts, m \in Puts : putLog[k].req = putLog[m].req => k = m
    /\ \A i \in 1..Len(reqs) :
         reqs[i].pc \in {"recv", "bad", "ready"} => \A k \in Puts : putLog[k].req # i

\* the request that arrived first uploads last, to the same key, with other
\* results: its content alone is stored
C3_Witness ==
    /\ Len(putLog) = 2 /\ putLog[1].ok /\ putLog[2].ok
    /\ putLog[1].req = 2 /\ putLog[2].req = 1
    /\ putLog[1].path = putLog[2].path
    /\ putLog[1].body.results # putLog[2].body.results
    /\ store = {[path |-> putLog[2].path, body |-> putLog[2].body]}

\* C4 as claimed: two accepted submissions whose evaluatorName values
\* differ are written to different storage keys, and neither is uploaded
\* to the key of the other.
C4_DifferentNamesDifferentKeys ==
    \A i \in 1..Len(reqs), j \in 1..Len(reqs) :
        (Accepted(i) /\ Accepted(j)
         /\ reqs[i].payload.evaluatorName # reqs[j].payload.evaluatorName) =>
            /\ reqs[i].path # reqs[j].path
            /\ \A k \in Puts : putLog[k].req = j => putLog[k].path # reqs[i].path

\* C4 as amended: two accepted submissions whose evaluatorName values
\* differ after trimming are given different storage paths, neither is
\* uploaded to the path of the other, and the object at the path of one is
\* never content of the other.
C4_DifferentTrimmedNamesDifferentKeys ==
    \A i \in 1..Len(reqs), j \in 1..Len(reqs) :
        (Accepted(i) /\ Accepted(j)
         /\ Strip(reqs[i].payload.evaluatorName.s) # Strip(reqs[j].payload.evaluatorName.s)) =>
            /\ reqs[i].path # reqs[j].path
            /\ \A k \in Puts : putLog[k].req = j => putLog[k].path # reqs[i].path
            /\ \A b \in StoredAt(reqs[i].path) :
                 Strip(b.evaluatorName.s) = Strip(reqs[i].payload.evaluatorName.s)

\* "a" and "b" both uploaded: two objects, each with its own content
C4_Witness ==
    /\ Len(reqs) = 2 /\ reqs[1].pc = "ok" /\ reqs[2].pc = "ok"
    /\ Strip(reqs[1].payload.evaluatorName.s) # Strip(reqs[2].payload.evaluatorName.s)
    /\ StoredAt(reqs[1].path) = {reqs[1].body}
    /\ StoredAt(reqs[2].path) = {reqs[2].body}

----------------------------------------------------------------------------
\* The loader run on one paginated listing

FileEntry(name, fetch) == [kind |-> "file", name |-> name, fetch |-> fetch]

\* "a.json" and "e.json" that load or fail (download, decoding or JSON
\* error), "B.JSON", "c.txt", and a folder "d.json"
LoaderEntries ==
    {FileEntry(<<97>> \o DotJson, "ok"), FileEntry(<<97>> \o DotJson, "error"),
     FileEntry(<<101>> \o DotJson, "ok"), FileEntry(<<101>> \o DotJson, "error"),
     FileEntry(<<66, 46, 74, 83, 79, 78>>, "ok"),
     FileEntry(<<99, 46, 116, 120, 116>>, "ok"),
     [kind |-> "folder", name |-> <<100>> \o DotJson, fetch |-> "ok"]}

\* the names of one folder differ
Listings ==
    {f \in SeqsOfLen(LoaderEntries, 0, MaxEntries) :
        \A i \in 1..Len(f), j \in 1..Len(f) : i # j => Lower(f[i].name) # Lower(f[j].name)}

\* the ways to cut n entries into 1..MaxPages pages (pages may be empty)
Cuts(n) ==
    UNION {{c \in [1..(k - 1) -> 0..n] : \A i \in 1..(k - 2) : c[i] <= c[i + 1]} :
             k \in 1..MaxPages}

PagesOf(f, c) ==
    [j \in 1..(Len(c) + 1) |->
        SubSeq(f, IF j = 1 THEN 1 ELSE c[j - 1] + 1,
                  IF j = Len(c) + 1 THEN Len(f) ELSE c[j])]

InitLoad ==
    /\ pages \in UNION {{PagesOf(f, c) : c \in Cuts(Len(f))} : f \in Listings}
    /\ lpc = "start" /\ page = 0 /\ entries = <<>> /\ pos = 0 /\ out = <<>>
    /\ IdleV /\ IdleA /\ IdleS

\* res = dbx.files_list_folder(folder); entries = list(res.entries)
ListFolder ==
    /\ lpc = "start"
    /\ page' = 1 /\ entries' = pages[1] /\ lpc' = "paging"
    /\ UNCHANGED <<pages, pos, out, vVars, aVars, sVars>>

\* while res.has_more: res = ...continue(res.cursor); entries.extend(...)
ListContinue ==
    /\ lpc = "paging" /\ has_more(page, pages)
    /\ page' = page + 1 /\ entries' = entries \o pages[page + 1]
    /\ UNCHANGED <<pages, lpc, pos, out, vVars, aVars, sVars>>

\* a listing call raises: the exception leaves the function
ListError ==
    /\ lpc = "start" \/ (lpc = "paging" /\ has_more(page, pages))
    /\ lpc' = "raised"
    /\ UNCHANGED <<pages, page, entries, pos, out, vVars, aVars, sVars>>

\* has_more is false: the for loop starts
StartLoop ==
    /\ lpc = "paging" /\ ~has_more(page, pages)
    /\ lpc' = "loop" /\ pos' = 1
    /\ UNCHANGED <<pages, page, entries, out, vVars, aVars, sVars>>

\* an entry that is no file or whose name does not end in .json
SkipEntry ==
    /\ lpc = "loop" /\ pos <= Len(entries) /\ ~IsVoteFile(entries[pos])
    /\ pos' = pos + 1
    /\ UNCHANGED <<pages, lpc, page, entries, out, vVars, aVars, sVars>>

\* download, decode and json.loads succeed: records.append(data); the
\* record is kept with the path it came from
LoadEntry ==
    /\ lpc = "loop" /\ pos <= Len(entries) /\ IsVoteFile(entries[pos])
    /\ entries[pos].fetch = "ok"
    /\ out' = Append(out, [from |-> PathLower(entries[pos])])
    /\ pos' = pos + 1
    /\ UNCHANGED <<pages, lpc, page, entries, vVars, aVars, sVars>>

\* one of them raises: print and continue
LoadError ==
    /\ lpc = "loop" /\ pos <= Len(entries) /\ IsVoteFile(entries[pos])
    /\ entries[pos].fetch # "ok"
    /\ pos' = pos + 1
    /\ UNCHANGED <<pages, lpc, page, entries, out, vVars, aVars, sVars>>

\* return records
ReturnRecords ==
    /\ lpc = "loop" /\ pos > Len(entries)
    /\ lpc' = "done"
    /\ UNCHANGED <<pages, page, entries, pos, out, vVars, aVars, sVars>>

NextLoad ==
    \/ ListFolder
    \/ ListContinue
    \/ ListError
    \/ StartLoop
    \/ SkipEntry
    \/ LoadEntry
    \/ LoadError
    \/ ReturnRecords

\* the function runs on: every call it makes returns or raises
SpecLoad == InitLoad /\ [][NextLoad]_vars /\ WF_vars(NextLoad)

----------------------------------------------------------------------------
\* Properties of the loader

RECURSIVE Flatten(_)
Flatten(pgs) == IF pgs = <<>> THEN <<>> ELSE Head(pgs) \o Flatten(Tail(pgs))

RecordsFrom(e) == {k \in 1..Len(out) : out[k].from = PathLower(e)}

\* a file whose name ends in ".json" as written
NamedDotJson(e) == e.kind = "file" /\ EndsWith(e.name, DotJson)

LoaderReturned ==
    lpc = "done" =>
      LET all == Flatten(pages)
      IN  /\ entries = all
          /\ \A i \in 1..Len(all) :
               /\ (NamedDotJson(all[i]) /\ all[i].fetch = "ok")
                     => Cardinality(RecordsFrom(all[i])) = 1
               /\ (all[i].kind # "file" \/ all[i].fetch # "ok"
                   \/ ~EndsWith(Lower(all[i].name), DotJson))
                     => RecordsFrom(all[i]) = {}
          /\ \A k \in 1..Len(out) : \E i \in 1..Len(all) : k \in RecordsFrom(all[i])

\* only a listing call makes the function raise, never an entry
RaisedOnlyByListing == lpc = "raised" => (pos = 0 /\ out = <<>>)

\* C9: the loader follows the cursors until has_more is false and then
\* returns exactly one record for every file entry of any page whose name
\* ends in .json and whose download and decoding succeed; a failing entry
\* is skipped, it neither aborts the load nor costs another entry its
\* record; and the function ends for every finite listing.
C9_LoaderDrainsAndTolerates ==
    /\ [](LoaderReturned /\ RaisedOnlyByListing)
    /\ <>(lpc \in {"done", "raised"})

\* returned from a listing of two pages with a failing .json file on the
\* first page and a loadable one on the second
C9_Witness ==
    /\ lpc = "done" /\ Len(pages) = 2 /\ Len(out) >= 2
    /\ \E i \in 1..Len(pages[1]) : IsVoteFile(pages[1][i]) /\ pages[1][i].fetch # "ok"
    /\ \E i \in 1..Len(pages[2]) :
         NamedDotJson(pages[2][i]) /\ pages[2][i].fetch = "ok"
         /\ Cardinality(RecordsFrom(pages[2][i])) = 1

====
